---- MODULE Spec2Model ----
(***************************************************************************)
(* Honeywell Lyric thermostat app: the OAuth2 client's response            *)
(* interpreter (HoneywellOAuth2Client), the vendor API client              *)
(* (HoneywellLyricClient) and the per-device poll / reconcile engine       *)
(* (HoneywellLyricDevice).                                                 *)
(*                                                                         *)
(* JSON objects are functions whose domain is the set of keys present, so  *)
(* hasOwnProperty is a domain test.  A number that may be null is <<>>     *)
(* (null) or <<n>>; a string that may be null is "null".  Strings that are *)
(* searched (faultstring) are sequences of tokens.                         *)
(***************************************************************************)
EXTENDS Integers, Sequences, FiniteSets, TLC

VARIABLES
    dev,        \* device id -> local state (capability values, settings, availability)
    pc,         \* device id -> position of the device's handler: new, idle, or the
                \* await it is at (getDevice, getFan) and whether the call settled (got...)
    timer,      \* device id -> the poll interval is armed (this.pollInterval)
    subs,       \* devices whose onRateLimited listens on the client's rateLimited event
    got,        \* device id -> the settled result of the call the handler awaits
    events,     \* device id -> what the handler that ran last for the device did, in order
    host,       \* how the platform's setCapabilityValue treats a value that is no number
    response,   \* the raw HTTP response the client received last
    result,     \* what the client made of it: the value returned or the error thrown
    deleted,    \* devices the platform removed (onOAuth2Deleted ran)
    token,      \* the client's stored token (this._token): <<>> or <<token>>
    saved,      \* the token the last save() persisted
    call        \* the token or write call in progress: operation, position, requests

vars == <<dev, pc, timer, subs, got, events, host, response, result,
          deleted, token, saved, call>>

---------------------------------------------------------------------------
(* Bounds *)

\* indoor temperatures reported are 32 + 18k, k in 0..MaxTempStep (exact in both units)
MaxTempStep == 1

---------------------------------------------------------------------------
(* Values *)

None == << >>
Some(x) == <<x>>

EmptyObject == [k \in {} |-> 0]

hasOwnProperty(o, k) == k \in DOMAIN o

UNIT_CELSIUS == "Celsius"

UNIT_FAHRENHEIT == "Fahrenheit"

\* the substring _detectRateLimit looks for, as tokens
RATE_LIMIT_SIGNATURE == <<"Rate limit quota", "violation.">>

\* String.prototype.includes over token sequences
includes(s, sub) ==
    \E i \in 0..(Len(s) - Len(sub)) : SubSeq(s, i + 1, i + Len(sub)) = sub

\* String.prototype.toLowerCase on the mode names the API reports
toLowerCase(m) ==
    CASE m = "Heat" -> "heat"
      [] m = "Off" -> "off"
      [] m = "Cool" -> "cool"
      [] OTHER -> m

\* (f - 32) / 1.8, on temperatures for which the quotient is exact
ftoc(f) == ((f - 32) * 10) \div 18

\* (c * 1.8) + 32
ctof(c) == ((c * 18) \div 10) + 32

---------------------------------------------------------------------------
(* HoneywellOAuth2Client: the response interpreter *)

\* String.prototype.startsWith over token sequences
startsWith(s, prefix) ==
    Len(s) >= Len(prefix) /\ SubSeq(s, 1, Len(prefix)) = prefix

JSON_TYPE == <<"application/json">>

Undefined == [t |-> "undefined"]
TextBody == [t |-> "string"]
Obj(o) == [t |-> "object", o |-> o]

Return(b, tr) == [kind |-> "return", body |-> b, trace |-> tr]
Throw(e, tr) == [kind |-> "throw", error |-> e, trace |-> tr]

\* response.ok of the fetch API
ok(r) == r.status \in 200..299

\* mutant: any fault with a faultstring counts as a rate limit
detectRateLimit_anyFault(body) ==
    /\ body.t = "object"
    /\ hasOwnProperty(body.o, "fault")
    /\ hasOwnProperty(body.o.fault, "faultstring")

\* _detectRateLimit(body = {}): TRUE when it emits rateLimited
detectRateLimit(body) ==
    /\ body.t = "object"
    /\ hasOwnProperty(body.o, "fault")
    /\ hasOwnProperty(body.o.fault, "faultstring")
    /\ includes(body.o.fault.faultstring, RATE_LIMIT_SIGNATURE)

\* onHandleNotOK: the rate limit detector runs, then the base class classifies
onHandleNotOK(body, tr) ==
    LET tr1 == Append(tr, "detectRateLimit")
        tr2 == IF detectRateLimit(body) THEN Append(tr1, "emit:rateLimited") ELSE tr1
    IN  Throw("OAuth2Error", tr2 \o <<"classify", "throw">>)

\* the content type is a string that starts with application/json
isJsonType(r) ==
    /\ hasOwnProperty(r.headers, "Content-Type")
    /\ startsWith(r.headers["Content-Type"], JSON_TYPE)

\* mutant: an empty body with a JSON content type is parsed like any other
onHandleResponse_parsesEmpty(r) ==
    IF r.status = 204 THEN Return(Undefined, <<>>)
    ELSE IF isJsonType(r) /\ r.text.kind # "json"
         THEN Throw("SyntaxError", <<"text", "parse", "throw">>)
    ELSE LET body == IF isJsonType(r) THEN Obj(r.text.value) ELSE TextBody
             tr == IF isJsonType(r) THEN <<"text", "parse">> ELSE <<"text">>
         IN  IF ok(r) THEN Return(body, tr)
             ELSE onHandleNotOK(body, tr)

onHandleResponse(r) ==
    IF r.status = 204 THEN Return(Undefined, <<>>)
    ELSE IF isJsonType(r) /\ r.text.kind = "garbage"
         THEN Throw("SyntaxError", <<"text", "parse", "throw">>)
    ELSE LET body == IF isJsonType(r)
                     THEN (IF r.text.kind = "empty" THEN Obj(EmptyObject)
                           ELSE Obj(r.text.value))
                     ELSE TextBody
             tr == IF isJsonType(r) THEN <<"text", "parse">> ELSE <<"text">>
         IN  IF ok(r) THEN Return(body, tr)
             ELSE onHandleNotOK(body, tr)

\* the interpreter emitted rateLimited while handling the response
emitted(res) == \E i \in 1..Len(res.trace) : res.trace[i] = "emit:rateLimited"

EmptyText == [kind |-> "empty"]
Garbage == [kind |-> "garbage"]
Json(v) == [kind |-> "json", value |-> v]

Headers ==
    { EmptyObject,
      [c \in {"Content-Type"} |-> JSON_TYPE],
      [c \in {"Content-Type"} |-> JSON_TYPE \o <<"; charset=utf-8">>],
      [c \in {"Content-Type"} |-> <<"text/html">>],
      [c \in {"Content-Type"} |-> <<"text/x-", "application/json">>] }

FaultStrings ==
    { RATE_LIMIT_SIGNATURE,
      <<"policy:">> \o RATE_LIMIT_SIGNATURE \o <<"retry later">>,
      <<"Rate limit quota">>,
      <<"violation.", "Rate limit quota">>,
      <<"other">> }

FaultBodies ==
    { [fault |-> [faultstring |-> fs]] : fs \in FaultStrings }
      \cup { [fault |-> EmptyObject], [message |-> <<"other">>], EmptyObject }

Texts == { EmptyText, Garbage } \cup { Json(v) : v \in FaultBodies }

Statuses == { 200, 204, 400, 401, 500 }

Responses == [status : Statuses, headers : Headers, text : Texts]

Pending == [kind |-> "pending"]

\* no response received (yet)
NoResponse == [status |-> -1]

\* no token or write call in progress
NoCall == [op |-> "none"]

---------------------------------------------------------------------------
(* HoneywellLyricClient: the calls a poll cycle makes *)

JsonHeaders == [c \in {"Content-Type"} |-> JSON_TYPE]

OkJson(v) == [status |-> 200, headers |-> JsonHeaders, text |-> Json(v)]

Fault(fs) == [status |-> 500, headers |-> JsonHeaders,
              text |-> Json([fault |-> [faultstring |-> fs]])]

\* the request never got a response (fetch rejects)
NetworkError == [status |-> 0, headers |-> EmptyObject, text |-> EmptyText]

\* getDevice / getFan: this.get, which hands the response to onHandleResponse
get(r) == IF r = NetworkError THEN Throw("FetchError", <<>>) ELSE onHandleResponse(r)

IndoorTemps == { 32 + 18 * k : k \in 0..MaxTempStep }

Units == { UNIT_CELSIUS, UNIT_FAHRENHEIT }

Optional(k, vals) == { EmptyObject } \cup { [x \in {k} |-> v] : v \in vals }

ChangeableValues ==
    { m @@ h @@ c : m \in Optional("mode", {"Heat", "Off"}),
                    h \in Optional("heatSetpoint", {20}),
                    c \in Optional("coolSetpoint", {25}) }

ThermostatPayloads ==
    { u @@ t @@ a @@ cv : u \in Optional("units", Units),
                          t \in Optional("indoorTemperature", IndoorTemps),
                          a \in Optional("isAlive", BOOLEAN),
                          cv \in Optional("changeableValues", ChangeableValues) }

FanPayloads == Optional("mode", {"On"})

FailureResponses ==
    { NetworkError,
      Fault(<<"policy:">> \o RATE_LIMIT_SIGNATURE),
      Fault(<<"other">>),
      [status |-> 401, headers |-> EmptyObject, text |-> EmptyText] }

OddResponses ==
    { [status |-> 204, headers |-> EmptyObject, text |-> EmptyText],
      [status |-> 200, headers |-> JsonHeaders, text |-> EmptyText],
      [status |-> 200, headers |-> [c \in {"Content-Type"} |-> <<"text/html">>],
       text |-> Garbage] }

ThermostatResponses ==
    { OkJson(p) : p \in ThermostatPayloads } \cup OddResponses \cup FailureResponses

FanResponses == { OkJson(p) : p \in FanPayloads } \cup OddResponses \cup FailureResponses

---------------------------------------------------------------------------
(* HoneywellLyricDevice: local state and reconciliation *)

Capabilities ==
    { "measure_temperature", "target_temperature", "target_temperature.cool",
      "custom_thermostat_mode", "custom_ac_mode", "fan_mode" }

NumberCapabilities ==
    { "measure_temperature", "target_temperature", "target_temperature.cool" }

\* the capability sets of the paired device kinds
CapSets ==
    { { "measure_temperature", "target_temperature", "target_temperature.cool",
        "custom_thermostat_mode" },
      { "measure_temperature", "target_temperature", "custom_ac_mode", "fan_mode" } }

NewDevice(caps) ==
    [ caps |-> caps,
      val |-> [c \in Capabilities |-> IF c \in NumberCapabilities THEN None ELSE "null"],
      units |-> "undefined",
      available |-> TRUE,
      reason |-> "none" ]

hasCapability(D, c) == c \in D.caps

\* a handler run: the device state, what it did so far, and how it left
Run(D, ev) ==
    [dev |-> D, ev |-> ev, thrown |-> FALSE, returned |-> FALSE, caught |-> FALSE]

Step(s, e) == [s EXCEPT !.ev = Append(@, e)]

throw(s) == [s EXCEPT !.thrown = TRUE]

setCapabilityValue(s, c, v) ==
    [s EXCEPT !.dev.val[c] = v, !.ev = Append(@, <<"setCapabilityValue", c>>)]

setSettings(s, u) ==
    [s EXCEPT !.dev.units = u, !.ev = Append(@, <<"setSettings", "units">>)]

setAvailable(s) ==
    [s EXCEPT !.dev.available = TRUE, !.dev.reason = "none",
              !.ev = Append(@, <<"setAvailable">>)]

setUnavailable(s, why) ==
    [s EXCEPT !.dev.available = FALSE, !.dev.reason = why,
              !.ev = Append(@, <<"setUnavailable", why>>)]

\* this.homey.__('rateLimited') and this.homey.__('unavailable'): the locale keys
RATE_LIMITED_REASON == "rateLimited"

OFFLINE_REASON == "unavailable"

\* onRateLimited: the listener of the client's rateLimited event
onRateLimited(D) == [D EXCEPT !.available = FALSE, !.reason = RATE_LIMITED_REASON]

\* mutant: the conversion is applied to Celsius payloads
parseMeasuredTemperature_convertsCelsius(s, d, h) ==
    IF ~hasOwnProperty(d, "units") THEN Step(s, <<"error", "units">>)
    ELSE LET t == IF ~hasOwnProperty(d, "indoorTemperature") THEN None
                  ELSE IF d.units = UNIT_CELSIUS THEN Some(ftoc(d.indoorTemperature))
                  ELSE Some(d.indoorTemperature)
             s1 == setSettings(s, d.units)
         IN  IF t = None /\ h = "rejects" THEN throw(s1)
             ELSE setCapabilityValue(s1, "measure_temperature", t)

\* a value of measure_temperature that is no number (undefined, NaN): the platform
\* stores null or rejects the call
parseMeasuredTemperature(s, d, h) ==
    IF ~hasOwnProperty(d, "units") THEN Step(s, <<"error", "units">>)
    ELSE LET t == IF ~hasOwnProperty(d, "indoorTemperature") THEN None
                  ELSE IF d.units # UNIT_CELSIUS THEN Some(ftoc(d.indoorTemperature))
                  ELSE Some(d.indoorTemperature)
             s1 == setSettings(s, d.units)
         IN  IF t = None /\ h = "rejects" THEN throw(s1)
             ELSE setCapabilityValue(s1, "measure_temperature", t)

parseTargetTemperature(s, d) ==
    LET cv == d.changeableValues IN
    IF ~hasOwnProperty(cv, "mode") THEN Step(s, <<"error", "mode">>)
    ELSE IF ~hasOwnProperty(cv, "heatSetpoint") THEN Step(s, <<"error", "heatSetpoint">>)
    ELSE IF ~hasOwnProperty(cv, "coolSetpoint") THEN Step(s, <<"error", "coolSetpoint">>)
    ELSE LET s1 == setCapabilityValue(s, "target_temperature", Some(cv.heatSetpoint))
         IN  IF hasCapability(s.dev, "target_temperature.cool")
             THEN setCapabilityValue(s1, "target_temperature.cool", Some(cv.coolSetpoint))
             ELSE s1

\* mutant: the stored mode is compared with the mode as reported, not lower-cased
parseThermostatMode_comparesRaw(s, d) ==
    LET cv == d.changeableValues IN
    IF ~hasOwnProperty(cv, "mode") THEN Step(s, <<"error", "mode">>)
    ELSE LET mode == toLowerCase(cv.mode)
             s1 == IF s.dev.val["custom_thermostat_mode"] # cv.mode
                   THEN Step(s, <<"trigger", "thermostat_mode_changed", mode>>)
                   ELSE s
         IN  setCapabilityValue(s1, "custom_thermostat_mode", mode)

\* mutant: the new mode is stored before it is compared
parseThermostatMode_storesFirst(s, d) ==
    LET cv == d.changeableValues IN
    IF ~hasOwnProperty(cv, "mode") THEN Step(s, <<"error", "mode">>)
    ELSE LET mode == toLowerCase(cv.mode)
             s1 == setCapabilityValue(s, "custom_thermostat_mode", mode)
         IN  IF s1.dev.val["custom_thermostat_mode"] # mode
             THEN Step(s1, <<"trigger", "thermostat_mode_changed", mode>>)
             ELSE s1

parseThermostatMode(s, d) ==
    LET cv == d.changeableValues IN
    IF ~hasOwnProperty(cv, "mode") THEN Step(s, <<"error", "mode">>)
    ELSE LET mode == toLowerCase(cv.mode)
             s1 == IF s.dev.val["custom_thermostat_mode"] # mode
                   THEN Step(s, <<"trigger", "thermostat_mode_changed", mode>>)
                   ELSE s
         IN  setCapabilityValue(s1, "custom_thermostat_mode", mode)

parseACMode(s, d) ==
    LET cv == d.changeableValues IN
    IF ~hasOwnProperty(cv, "mode") THEN Step(s, <<"error", "mode">>)
    ELSE setCapabilityValue(s, "custom_ac_mode", cv.mode)

\* mutant: availability is re-applied whatever the device's current availability
parseAlive_reapplies(s, d) ==
    IF hasOwnProperty(d, "isAlive") /\ d.isAlive THEN setAvailable(s)
    ELSE setUnavailable(s, "unavailable")

parseAlive(s, d) ==
    LET alive == hasOwnProperty(d, "isAlive") /\ d.isAlive
        s0 == IF ~hasOwnProperty(d, "isAlive") THEN Step(s, <<"error", "isAlive">>) ELSE s
        s1 == IF s0.dev.available = FALSE /\ alive THEN setAvailable(s0) ELSE s0
    IN  IF s1.dev.available = TRUE /\ ~alive THEN setUnavailable(s1, OFFLINE_REASON) ELSE s1

parseFanMode(s, d) ==
    IF ~hasOwnProperty(d, "mode") THEN Step(s, <<"error", "mode">>)
    ELSE setCapabilityValue(s, "fan_mode", d.mode)

\* _fetchDeviceData, lines 220-246: the try block around the thermostat fetch
fetchThermostat(D, res, h) ==
    LET s == Run(D, <<>>)
        failed(x) == Step([x EXCEPT !.thrown = FALSE, !.caught = TRUE],
                          <<"error", "failed to get device">>)
    IN  IF res.kind = "throw" \/ res.body.t = "undefined" THEN failed(s)
        ELSE IF res.body.t = "string" \/ ~hasOwnProperty(res.body.o, "changeableValues")
        THEN [Step(s, <<"error", "changeableValues">>) EXCEPT !.returned = TRUE]
        ELSE LET d == res.body.o
                 s1 == parseMeasuredTemperature(s, d, h)
                 s2 == IF s1.thrown THEN s1 ELSE parseTargetTemperature(s1, d)
                 s3 == IF s2.thrown \/ ~hasCapability(D, "custom_thermostat_mode") THEN s2
                       ELSE parseThermostatMode(s2, d)
                 s4 == IF s3.thrown \/ ~hasCapability(D, "custom_ac_mode") THEN s3
                       ELSE parseACMode(s3, d)
                 s5 == IF s4.thrown THEN s4 ELSE parseAlive(s4, d)
             IN  IF s5.thrown THEN failed(s5) ELSE Step(s5, <<"log", "completed">>)

\* _fetchDeviceData, lines 249-261: the try block around the fan fetch
fetchFan(D, res) ==
    LET s == Run(D, <<>>)
    IN  IF res.kind = "throw" \/ res.body.t = "undefined"
        THEN Step([s EXCEPT !.caught = TRUE], <<"error", "failed to get fan">>)
        ELSE Step(parseFanMode(s, IF res.body.t = "string" THEN EmptyObject ELSE res.body.o),
                  <<"log", "completed">>)

---------------------------------------------------------------------------
(* Actions *)

Devices == DOMAIN dev

\* mutant: only the listeners of devices with a call in flight run
emitRateLimited_callersOnly(res) ==
    IF emitted(res)
    THEN [x \in Devices |-> IF x \in subs /\ pc[x] \in {"getDevice", "getFan"}
                            THEN onRateLimited(dev[x]) ELSE dev[x]]
    ELSE dev

\* EventEmitter.emit('rateLimited'): every listener runs
emitRateLimited(res) ==
    IF emitted(res)
    THEN [x \in Devices |-> IF x \in subs THEN onRateLimited(dev[x]) ELSE dev[x]]
    ELSE dev

\* onOAuth2Init: listen for rateLimited, arm the poll interval, start the first fetch
OnOAuth2Init(d) ==
    /\ pc[d] = "new"
    /\ subs' = subs \cup {d}
    /\ timer' = [timer EXCEPT ![d] = TRUE]
    /\ pc' = [pc EXCEPT ![d] = "getDevice"]
    /\ events' = [events EXCEPT ![d] = << <<"getDevice">> >>]
    /\ UNCHANGED <<deleted, token, saved, call, dev, got, host, response, result>>

\* the poll interval fires: _fetchDeviceData starts and awaits getDevice
TimerFires(d) ==
    /\ pc[d] = "idle"
    /\ timer[d]
    /\ pc' = [pc EXCEPT ![d] = "getDevice"]
    /\ events' = [events EXCEPT ![d] = << <<"getDevice">> >>]
    /\ UNCHANGED <<deleted, token, saved, call, dev, got, timer, subs, host, response, result>>

\* the call the device awaits settles: the client interprets the response r, which
\* may emit rateLimited to every listener, and the awaited promise holds the result
Settle(d, at, R) ==
    /\ pc[d] = at
    /\ \E r \in R :
         LET res == get(r)
         IN  /\ dev' = emitRateLimited(res)
             /\ got' = [got EXCEPT ![d] = res]
    /\ pc' = [pc EXCEPT ![d] = IF at = "getDevice" THEN "gotDevice" ELSE "gotFan"]
    /\ UNCHANGED <<deleted, token, saved, call, events, timer, subs, host, response, result>>

\* mutant: the catch of the thermostat fetch ends the cycle
fetchesFan_unlessFailed(D, run) ==
    ~run.returned /\ ~run.caught /\ hasCapability(D, "fan_mode")

\* _fetchDeviceData after its first try block: the fan fetch, unless it returned
fetchesFan(D, run) == ~run.returned /\ hasCapability(D, "fan_mode")

\* mutant: a cycle whose thermostat fetch failed clears the poll interval
ResumeThermostat_stopsOnFailure(d) ==
    /\ pc[d] = "gotDevice"
    /\ LET run == fetchThermostat(dev[d], got[d], host)
       IN  /\ dev' = [dev EXCEPT ![d] = run.dev]
           /\ events' = [events EXCEPT ![d] =
                           IF fetchesFan(dev[d], run)
                           THEN @ \o Append(run.ev, <<"getFan">>) ELSE @ \o run.ev]
           /\ pc' = [pc EXCEPT ![d] = IF fetchesFan(dev[d], run) THEN "getFan" ELSE "idle"]
           /\ timer' = [timer EXCEPT ![d] = @ /\ ~run.caught]
    /\ got' = [got EXCEPT ![d] = Pending]
    /\ UNCHANGED <<deleted, token, saved, call, subs, host, response, result>>

\* _fetchDeviceData resumes after getDevice and runs up to the fan fetch
ResumeThermostat(d) ==
    /\ pc[d] = "gotDevice"
    /\ LET run == fetchThermostat(dev[d], got[d], host)
       IN  /\ dev' = [dev EXCEPT ![d] = run.dev]
           /\ events' = [events EXCEPT ![d] =
                           IF fetchesFan(dev[d], run)
                           THEN @ \o Append(run.ev, <<"getFan">>) ELSE @ \o run.ev]
           /\ pc' = [pc EXCEPT ![d] = IF fetchesFan(dev[d], run) THEN "getFan" ELSE "idle"]
    /\ got' = [got EXCEPT ![d] = Pending]
    /\ UNCHANGED <<deleted, token, saved, call, timer, subs, host, response, result>>

\* _fetchDeviceData resumes after getFan and runs to its end
ResumeFan(d) ==
    /\ pc[d] = "gotFan"
    /\ LET run == fetchFan(dev[d], got[d])
       IN  /\ dev' = [dev EXCEPT ![d] = run.dev]
           /\ events' = [events EXCEPT ![d] = @ \o run.ev]
    /\ pc' = [pc EXCEPT ![d] = "idle"]
    /\ got' = [got EXCEPT ![d] = Pending]
    /\ UNCHANGED <<deleted, token, saved, call, timer, subs, host, response, result>>

Hosts == { "stores null", "rejects" }

Init ==
    /\ \E caps \in CapSets : dev = [x \in {1} |-> NewDevice(caps)]
    /\ pc = [x \in {1} |-> "new"]
    /\ timer = [x \in {1} |-> FALSE]
    /\ subs = {}
    /\ got = [x \in {1} |-> Pending]
    /\ events = [x \in {1} |-> <<>>]
    /\ host \in Hosts
    /\ response = NoResponse
    /\ result = Pending
    /\ deleted = {}
    /\ token = None
    /\ saved = None
    /\ call = NoCall

SettleThermostat(d) == Settle(d, "getDevice", ThermostatResponses)

SettleFan(d) == Settle(d, "getFan", FanResponses)

Next ==
    \/ \E d \in Devices : OnOAuth2Init(d)
    \/ \E d \in Devices : TimerFires(d)
    \/ \E d \in Devices : SettleThermostat(d)
    \/ \E d \in Devices : ResumeThermostat(d)
    \/ \E d \in Devices : SettleFan(d)
    \/ \E d \in Devices : ResumeFan(d)

Spec == Init /\ [][Next]_vars

---------------------------------------------------------------------------
(* The response interpreter on its own *)

\* a response reaches the client
Receive ==
    /\ result # Pending
    /\ response' \in Responses
    /\ result' = Pending
    /\ UNCHANGED <<deleted, token, saved, call, dev, pc, timer, subs, got, events, host>>

\* onHandleResponse runs on it
Interpret ==
    /\ result = Pending
    /\ result' = onHandleResponse(response)
    /\ UNCHANGED <<deleted, token, saved, call, dev, pc, timer, subs, got, events, host, response>>

InitResp ==
    /\ dev = << >>
    /\ pc = << >>
    /\ timer = << >>
    /\ subs = {}
    /\ got = << >>
    /\ events = << >>
    /\ host = "stores null"
    /\ response \in Responses
    /\ result = Pending
    /\ deleted = {}
    /\ token = None
    /\ saved = None
    /\ call = NoCall

NextResp == Receive \/ Interpret

SpecResp == InitResp /\ [][NextResp]_vars

---------------------------------------------------------------------------
(* Several devices on one client *)

RateDevices == { 1, 2 }

RateCaps == { "measure_temperature", "target_temperature", "custom_ac_mode", "fan_mode" }

AlivePayload ==
    [ units |-> UNIT_CELSIUS, indoorTemperature |-> 32, isAlive |-> TRUE,
      changeableValues |-> [mode |-> "Heat", heatSetpoint |-> 20, coolSetpoint |-> 25] ]

RateThermostatResponses ==
    { OkJson(AlivePayload), Fault(<<"policy:">> \o RATE_LIMIT_SIGNATURE), Fault(<<"other">>) }

RateFanResponses ==
    { OkJson([mode |-> "On"]), Fault(<<"policy:">> \o RATE_LIMIT_SIGNATURE) }

RateSettleThermostat(d) == Settle(d, "getDevice", RateThermostatResponses)

RateSettleFan(d) == Settle(d, "getFan", RateFanResponses)

InitRate ==
    /\ dev = [x \in RateDevices |-> NewDevice(RateCaps)]
    /\ pc = [x \in RateDevices |-> "new"]
    /\ timer = [x \in RateDevices |-> FALSE]
    /\ subs = {}
    /\ got = [x \in RateDevices |-> Pending]
    /\ events = [x \in RateDevices |-> <<>>]
    /\ host = "stores null"
    /\ response = NoResponse
    /\ result = Pending
    /\ deleted = {}
    /\ token = None
    /\ saved = None
    /\ call = NoCall

NextRate ==
    \/ \E d \in Devices : OnOAuth2Init(d)
    \/ \E d \in Devices : TimerFires(d)
    \/ \E d \in Devices : RateSettleThermostat(d)
    \/ \E d \in Devices : ResumeThermostat(d)
    \/ \E d \in Devices : RateSettleFan(d)
    \/ \E d \in Devices : ResumeFan(d)

SpecRate == InitRate /\ [][NextRate]_vars

---------------------------------------------------------------------------
(* HoneywellOAuth2Client: the token calls *)

\* new OAuth2Token(body): the fields of the body it keeps, undefined when absent
OAuth2Token(body) ==
    [ access_token |-> IF hasOwnProperty(body, "access_token")
                       THEN body.access_token ELSE "undefined",
      refresh_token |-> IF hasOwnProperty(body, "refresh_token")
                        THEN body.refresh_token ELSE "undefined" ]

\* token.isRefreshable()
isRefreshable(t) == t.refresh_token # "undefined"

AccessTokens == { "a1", "a2" }

TokenBodies ==
    { a @@ r : a \in Optional("access_token", AccessTokens),
               r \in Optional("refresh_token", {"r1"}) }
      \cup { [error |-> "invalid_grant"] }

\* the tokens a client may hold when a token call starts
StoredTokens ==
    { None } \cup { Some(OAuth2Token(b)) :
                       b \in { x \in TokenBodies : hasOwnProperty(x, "access_token") } }

TokenResponses ==
    { NetworkError }
      \cup [ status : {200, 400, 401, 500},
             headers : { JsonHeaders, EmptyObject },
             text : { EmptyText, Garbage } \cup { Json(b) : b \in TokenBodies } ]

\* res.json(): parses the text whatever the status and the content type
res_json(r) ==
    IF r.text.kind = "json" THEN Return(r.text.value, <<>>)
    ELSE Throw("FetchError", <<>>)

\* a token call starts with the requests it sent (none yet) and the token stored then
Started(op, at) == [op |-> op, pc |-> at, sent |-> <<>>, saves |-> 0, before |-> token]

\* onGetTokenByCode up to its fetch of the token URL
GetTokenByCode ==
    /\ call = NoCall
    /\ call' = [Started("onGetTokenByCode", "fetch") EXCEPT !.sent = <<"POST token">>]
    /\ response' = NoResponse
    /\ result' = Pending
    /\ UNCHANGED <<dev, pc, timer, subs, got, events, host, deleted, token, saved>>

\* onGetTokenByCode after the fetch: the body is read as JSON and wrapped in a token
SettleTokenByCode ==
    /\ call # NoCall /\ call.op = "onGetTokenByCode" /\ call.pc = "fetch"
    /\ \E r \in TokenResponses :
         /\ response' = r
         /\ result' = IF r = NetworkError THEN Throw("FetchError", <<>>)
                      ELSE IF res_json(r).kind = "throw" THEN res_json(r)
                      ELSE Return(OAuth2Token(res_json(r).body), <<>>)
    /\ call' = [call EXCEPT !.pc = "done"]
    /\ UNCHANGED <<dev, pc, timer, subs, got, events, host, deleted, token, saved>>

\* mutant: a token that cannot be refreshed is sent to the token URL all the same
refreshable_always(t) == t # None

\* onRefreshToken, lines 132-137: the stored token is there and refreshable
refreshable(t) == t # None /\ isRefreshable(t[1])

\* onRefreshToken up to its fetch of the token URL
RefreshToken ==
    /\ call = NoCall
    /\ response' = NoResponse
    /\ IF refreshable(token)
       THEN /\ call' = [Started("onRefreshToken", "fetch") EXCEPT !.sent = <<"POST token">>]
            /\ result' = Pending
       ELSE /\ call' = Started("onRefreshToken", "done")
            /\ result' = Throw("OAuth2Error", <<>>)
    /\ UNCHANGED <<dev, pc, timer, subs, got, events, host, deleted, token, saved>>

\* this.onHandleRefreshTokenResponse({ response }) of the base client: the token it
\* builds from the response over the stored one, or its failure to
onHandleRefreshTokenResponse(r, old) ==
    { Throw("Error", <<>>) }
      \cup (IF r.text.kind = "json"
            THEN { Return([ access_token |-> IF hasOwnProperty(r.text.value, "access_token")
                                             THEN r.text.value.access_token
                                             ELSE old.access_token,
                            refresh_token |-> IF hasOwnProperty(r.text.value, "refresh_token")
                                              THEN r.text.value.refresh_token
                                              ELSE old.refresh_token ], <<>>) }
            ELSE {})

\* onRefreshToken after the fetch: a response that is not ok throws; otherwise the
\* token of the response is stored, saved and returned
SettleRefreshToken ==
    /\ call # NoCall /\ call.op = "onRefreshToken" /\ call.pc = "fetch"
    /\ \E r \in TokenResponses :
         /\ response' = r
         /\ IF r = NetworkError \/ ~ok(r)
            THEN /\ result' = Throw(IF r = NetworkError THEN "FetchError" ELSE "Error", <<>>)
                 /\ call' = [call EXCEPT !.pc = "done"]
                 /\ UNCHANGED <<token, saved>>
            ELSE \E made \in onHandleRefreshTokenResponse(r, token[1]) :
                   IF made.kind = "throw"
                   THEN /\ result' = made
                        /\ call' = [call EXCEPT !.pc = "done"]
                        /\ UNCHANGED <<token, saved>>
                   ELSE /\ token' = Some(made.body)
                        /\ saved' = token'
                        /\ result' = Return(made.body, <<>>)
                        /\ call' = [call EXCEPT !.pc = "done", !.saves = @ + 1]
    /\ UNCHANGED <<dev, pc, timer, subs, got, events, host, deleted>>

\* the caller has the outcome; the client is free for the next call
CallDone ==
    /\ call # NoCall /\ call.pc = "done"
    /\ call' = NoCall
    /\ UNCHANGED <<dev, pc, timer, subs, got, events, host, deleted, token, saved,
                   response, result>>

InitToken ==
    /\ dev = << >>
    /\ pc = << >>
    /\ timer = << >>
    /\ subs = {}
    /\ got = << >>
    /\ events = << >>
    /\ host = "stores null"
    /\ deleted = {}
    /\ response = NoResponse
    /\ result = Pending
    /\ token \in StoredTokens
    /\ saved = token
    /\ call = NoCall

NextToken ==
    \/ GetTokenByCode
    \/ SettleTokenByCode
    \/ RefreshToken
    \/ SettleRefreshToken
    \/ CallDone

SpecToken == InitToken /\ [][NextToken]_vars

---------------------------------------------------------------------------
(* HoneywellLyricClient: thermostat writes *)

NumberFields == { "heatSetpoint", "coolSetpoint" }

\* x || y takes y: x is undefined (no key), null, 0 or the empty string
falsy(p, k) ==
    \/ ~hasOwnProperty(p, k)
    \/ (k \in NumberFields /\ (p[k] = None \/ p[k] = Some(0)))
    \/ (k \notin NumberFields /\ p[k] = "")

\* mutant: only what the caller supplied is sent
orElse_suppliedOnly(p, cv, k) ==
    IF ~falsy(p, k) THEN [x \in {k} |-> IF k \in NumberFields THEN p[k][1] ELSE p[k]]
    ELSE EmptyObject

\* p[k] || cv[k] as a field of the command; a field left undefined is not sent
orElse(p, cv, k) ==
    IF ~falsy(p, k) THEN [x \in {k} |-> IF k \in NumberFields THEN p[k][1] ELSE p[k]]
    ELSE IF hasOwnProperty(cv, k) THEN [x \in {k} |-> cv[k]]
    ELSE EmptyObject

\* typeof v === 'string' for a field that is a string or null
isString(cv, k) == hasOwnProperty(cv, k) /\ cv[k] # "null"

\* mutant: a hold until the next period is sent without a next period
holdPolicy_keepsHoldUntil(json, cv) ==
    IF isString(cv, "nextPeriodTime")
    THEN json @@ [x \in {"nextPeriodTime"} |-> cv.nextPeriodTime]
    ELSE json

\* _sendThermostatData, lines 157-163
holdPolicy(json, cv) ==
    IF isString(cv, "nextPeriodTime")
    THEN json @@ [x \in {"nextPeriodTime"} |-> cv.nextPeriodTime]
    ELSE [json EXCEPT !.thermostatSetpointStatus = "PermanentHold"]

\* _sendThermostatData, lines 144-163: the command composed from the caller's fields
\* p over the changeableValues cv of the device just fetched
sendThermostatData(p, cv) ==
    LET json == orElse(p, cv, "mode") @@ orElse(p, cv, "heatSetpoint")
                  @@ orElse(p, cv, "coolSetpoint")
                  @@ orElse(p, cv, "thermostatSetpointStatus")
        json1 == IF hasOwnProperty(cv, "autoChangeoverActive")
                 THEN json @@ [x \in {"autoChangeoverActive"} |-> cv.autoChangeoverActive]
                 ELSE json
    IN  IF hasOwnProperty(json1, "thermostatSetpointStatus")
           /\ json1.thermostatSetpointStatus = "HoldUntil"
        THEN holdPolicy(json1, cv)
        ELSE json1

\* _getDeviceData: the device fetched for a write, or the error thrown
getDeviceData(res) ==
    IF res.kind = "throw" THEN res
    ELSE IF res.body.t # "object"
            \/ ~hasOwnProperty(res.body.o, "deviceID")
            \/ ~hasOwnProperty(res.body.o, "changeableValues")
         THEN Throw("invalid_device_properties", res.trace)
    ELSE res

GetDevice == [method |-> "GET", path |-> "thermostat"]

PostThermostat(json) == [method |-> "POST", path |-> "thermostat", json |-> json]

PostFan(json) == [method |-> "POST", path |-> "fan", json |-> json]

\* what callers hand to setThermostat and resumeSchedule besides the ids
Partials ==
    { m @@ h @@ c @@ st : m \in Optional("mode", {"Off"}),
                          h \in Optional("heatSetpoint", {None, Some(0), Some(21)}),
                          c \in Optional("coolSetpoint", {Some(26)}),
                          st \in Optional("thermostatSetpointStatus",
                                          {"HoldUntil", "PermanentHold"}) }

SnapshotValues ==
    { m @@ h @@ c @@ st @@ n @@ a :
        m \in Optional("mode", {"Heat"}),
        h \in Optional("heatSetpoint", {20}),
        c \in { [x \in {"coolSetpoint"} |-> 25] },
        st \in Optional("thermostatSetpointStatus", {"NoHold", "HoldUntil", "PermanentHold"}),
        n \in Optional("nextPeriodTime", {"18:00", "null"}),
        a \in Optional("autoChangeoverActive", {TRUE}) }

Snapshots ==
    { i @@ cv : i \in Optional("deviceID", {"LCC-1"}),
                cv \in Optional("changeableValues", SnapshotValues) }

SnapshotResponses ==
    { OkJson(d) : d \in Snapshots } \cup OddResponses \cup FailureResponses

PostResponses ==
    { [status |-> 200, headers |-> JsonHeaders, text |-> EmptyText] } \cup FailureResponses

\* a write starts with the fields it hands to _sendThermostatData; caller is the
\* promise its caller holds
Write(op, args, p) ==
    [op |-> op, pc |-> "getDevice", args |-> args, partial |-> p, sent |-> <<GetDevice>>,
     entry |-> op, returns |-> TRUE, caller |-> Pending]

\* setThermostat / resumeSchedule with an id that is no string
Invalid(op, args) ==
    [op |-> op, pc |-> "done", args |-> args, partial |-> EmptyObject, sent |-> <<>>,
     entry |-> op, returns |-> TRUE, caller |-> Throw("invalid_device_id", <<>>)]

\* the promise the caller holds once the write settled with res: the write's own when
\* the entry point returned it
settled(c, res) == IF c.returns THEN res ELSE c.caller

\* client.setThermostat up to the GET of _getDeviceData
SetThermostat ==
    /\ call = NoCall
    /\ \E p \in Partials, ids \in BOOLEAN :
         IF ids
         THEN /\ call' = Write("setThermostat", p, p)
              /\ result' = Pending
         ELSE /\ call' = Invalid("setThermostat", p)
              /\ result' = Throw("invalid_device_id", <<>>)
    /\ response' = NoResponse
    /\ UNCHANGED <<dev, pc, timer, subs, got, events, host, deleted, token, saved>>

\* mutant: resumeSchedule passes the caller's fields on
resumeScheduleData_passesArgs(args) ==
    args @@ [x \in {"thermostatSetpointStatus"} |-> "NoHold"]

\* resumeSchedule, lines 95-99: what it hands to _sendThermostatData
resumeScheduleData(args) == [x \in {"thermostatSetpointStatus"} |-> "NoHold"]

\* client.resumeSchedule up to the GET of _getDeviceData
ResumeSchedule ==
    /\ call = NoCall
    /\ \E args \in Partials, ids \in BOOLEAN :
         IF ids
         THEN /\ call' = Write("resumeSchedule", args, resumeScheduleData(args))
              /\ result' = Pending
         ELSE /\ call' = Invalid("resumeSchedule", args)
              /\ result' = Throw("invalid_device_id", <<>>)
    /\ response' = NoResponse
    /\ UNCHANGED <<dev, pc, timer, subs, got, events, host, deleted, token, saved>>

\* mutant: a device object that fails the check is used all the same
sendsPost_unchecked(res) == res.kind = "return" /\ res.body.t = "object"

\* _sendThermostatData goes on to its POST when _getDeviceData returned
sendsPost(res) == getDeviceData(res).kind = "return"

\* the changeableValues of a device object, none when it has none
changeableValuesOf(o) ==
    IF hasOwnProperty(o, "changeableValues") THEN o.changeableValues ELSE EmptyObject

\* _sendThermostatData after the GET settled with response r: _getDeviceData checks
\* the device, the command is composed and posted
SnapshotSettles(R) ==
    /\ call # NoCall /\ call.pc = "getDevice"
    /\ \E r \in R :
         LET res == get(r)
         IN  /\ response' = r
             /\ dev' = emitRateLimited(res)
             /\ IF sendsPost(res)
                THEN /\ call' = [call EXCEPT
                                   !.pc = "post",
                                   !.sent = Append(@, PostThermostat(
                                       sendThermostatData(call.partial,
                                           changeableValuesOf(res.body.o))))]
                     /\ result' = Pending
                ELSE /\ call' = [call EXCEPT !.pc = "done",
                                              !.caller = settled(call, getDeviceData(res))]
                     /\ result' = getDeviceData(res)
    /\ UNCHANGED <<pc, timer, subs, got, events, host, deleted, token, saved>>

\* the POST settles: its outcome is the outcome of the write
PostSettles(R) ==
    /\ call # NoCall /\ call.pc = "post"
    /\ \E r \in R :
         LET res == get(r)
         IN  /\ response' = r
             /\ dev' = emitRateLimited(res)
             /\ result' = res
             /\ call' = [call EXCEPT !.pc = "done", !.caller = settled(call, res)]
    /\ UNCHANGED <<pc, timer, subs, got, events, host, deleted, token, saved>>

SettleSnapshot == SnapshotSettles(SnapshotResponses)

SettlePost == PostSettles(PostResponses)

InitCompose ==
    /\ dev = << >>
    /\ pc = << >>
    /\ timer = << >>
    /\ subs = {}
    /\ got = << >>
    /\ events = << >>
    /\ host = "stores null"
    /\ deleted = {}
    /\ token = None
    /\ saved = None
    /\ response = NoResponse
    /\ result = Pending
    /\ call = NoCall

NextCompose ==
    \/ SetThermostat
    \/ ResumeSchedule
    \/ SettleSnapshot
    \/ SettlePost
    \/ CallDone

SpecCompose == InitCompose /\ [][NextCompose]_vars

---------------------------------------------------------------------------
(* HoneywellLyricDevice: the write entry points *)

\* typeof capabilityValues[k] === 'number'
isNumber(v, k) == hasOwnProperty(v, k) /\ v[k] # None

\* _transformTemperature: Celsius of the platform to the unit of the device
transformTemperature(D, t) ==
    IF D.units # "undefined" /\ D.units # UNIT_CELSIUS THEN ctof(t) ELSE t

\* mutant: only a heat setpoint asks for a hold until the next period
requestedStatus_heatOnly(D, v) ==
    IF isNumber(v, "target_temperature") THEN "HoldUntil" ELSE "PermanentHold"

\* onMultipleCapabilities, lines 149-168: the hold status it asks for
requestedStatus(D, v) ==
    IF \/ isNumber(v, "target_temperature")
       \/ (hasCapability(D, "target_temperature.cool")
             /\ isNumber(v, "target_temperature.cool"))
    THEN "HoldUntil"
    ELSE "PermanentHold"

\* onMultipleCapabilities, lines 145-185: what it hands to setThermostat, and the
\* flow card it triggers on the way
onMultipleCapabilities(D, v) ==
    LET stored == D.val["target_temperature"]
        hasCool == hasCapability(D, "target_temperature.cool")
        heat == IF isNumber(v, "target_temperature")
                THEN Some(transformTemperature(D, v["target_temperature"][1]))
                ELSE stored
        cool == IF hasCool /\ isNumber(v, "target_temperature.cool")
                THEN Some(transformTemperature(D, v["target_temperature.cool"][1]))
                ELSE IF hasCool THEN D.val["target_temperature.cool"] ELSE stored
        thermostat == hasCapability(D, "custom_thermostat_mode")
                        /\ hasOwnProperty(v, "custom_thermostat_mode")
        newMode == IF v["custom_thermostat_mode"] = "" THEN "heat"
                   ELSE v["custom_thermostat_mode"]
        ac == hasCapability(D, "custom_ac_mode") /\ hasOwnProperty(v, "custom_ac_mode")
        mode == IF ac THEN [x \in {"mode"} |-> v["custom_ac_mode"]]
                ELSE IF thermostat
                     THEN [x \in {"mode"} |-> IF newMode = "heat" THEN "Heat" ELSE "Off"]
                ELSE EmptyObject
    IN  [ partial |-> mode @@ [ heatSetpoint |-> heat, coolSetpoint |-> cool,
                                thermostatSetpointStatus |-> requestedStatus(D, v) ],
          ev |-> IF thermostat
                 THEN << <<"trigger", "thermostat_mode_changed", newMode>> >>
                 ELSE << >> ]

\* the capabilities onOAuth2Init registered a listener for
listened(D) ==
    D.caps \cap { "target_temperature", "target_temperature.cool",
                  "custom_thermostat_mode", "custom_ac_mode", "fan_mode" }

\* what the platform hands to the listener of the setpoint and mode capabilities
CapabilityValues ==
    { t @@ c @@ m @@ a :
        t \in Optional("target_temperature", {Some(0), Some(21)}),
        c \in Optional("target_temperature.cool", {Some(26)}),
        m \in Optional("custom_thermostat_mode", {"heat", "off", ""}),
        a \in Optional("custom_ac_mode", {"Cool"}) }

FanModes == { "On", "Auto" }

\* the promise of an entry point that does not return the promise of the write
Fulfilled == Return(Undefined, <<>>)

\* the listener of the setpoint and mode capabilities runs with values v; the entry
\* point the caller used hands the listener's promise on, or does not
StartsThermostat(d, entry, v, returns) ==
    LET m == onMultipleCapabilities(dev[d], v)
    IN  /\ call' = [Write("setThermostat", v, m.partial) EXCEPT
                      !.entry = entry, !.returns = returns,
                      !.caller = IF returns THEN Pending ELSE Fulfilled]
        /\ events' = [events EXCEPT ![d] = m.ev]
        /\ result' = Pending

\* onFanCapability: client.setFanMode posts the mode
StartsFan(d, entry, value, returns) ==
    /\ call' = [ op |-> "setFanMode", pc |-> "post", args |-> [mode |-> value],
                 partial |-> [mode |-> value], sent |-> <<PostFan([mode |-> value])>>,
                 entry |-> entry, returns |-> returns,
                 caller |-> IF returns THEN Pending ELSE Fulfilled ]
    /\ events' = [events EXCEPT ![d] = << >>]
    /\ result' = Pending

\* this.triggerCapabilityListener(cap, value), whose promise the entry point drops: the
\* listener registered for cap runs, or the platform rejects for want of one
triggerCapabilityListener(d, entry, cap, value) ==
    IF cap \notin listened(dev[d])
    THEN /\ call' = [Invalid(entry, [x \in {cap} |-> value]) EXCEPT
                       !.returns = FALSE, !.caller = Fulfilled]
         /\ events' = [events EXCEPT ![d] = << >>]
         /\ result' = Throw("invalid_capability", <<>>)
    ELSE IF cap = "fan_mode" THEN StartsFan(d, entry, value, FALSE)
    ELSE StartsThermostat(d, entry, [x \in {cap} |-> value], FALSE)

OnMultipleCapabilities(d) ==
    /\ call = NoCall
    /\ \E v \in CapabilityValues : StartsThermostat(d, "onMultipleCapabilities", v, TRUE)
    /\ response' = NoResponse
    /\ UNCHANGED <<dev, pc, timer, subs, got, host, deleted, token, saved>>

OnFanCapability(d) ==
    /\ call = NoCall
    /\ hasCapability(dev[d], "fan_mode")
    /\ \E value \in FanModes : StartsFan(d, "onFanCapability", value, TRUE)
    /\ response' = NoResponse
    /\ UNCHANGED <<dev, pc, timer, subs, got, host, deleted, token, saved>>

SetCustomThermostatMode(d) ==
    /\ call = NoCall
    /\ \E value \in {"heat", "off"} :
         triggerCapabilityListener(d, "setCustomThermostatMode",
                                   "custom_thermostat_mode", value)
    /\ response' = NoResponse
    /\ UNCHANGED <<dev, pc, timer, subs, got, host, deleted, token, saved>>

SetCustomACMode(d) ==
    /\ call = NoCall
    /\ \E value \in {"Cool"} :
         triggerCapabilityListener(d, "setCustomACMode", "custom_ac_mode", value)
    /\ response' = NoResponse
    /\ UNCHANGED <<dev, pc, timer, subs, got, host, deleted, token, saved>>

SetCoolSetpoint(d) ==
    /\ call = NoCall
    /\ \E value \in {Some(26)} :
         triggerCapabilityListener(d, "setCoolSetpoint", "target_temperature.cool", value)
    /\ response' = NoResponse
    /\ UNCHANGED <<dev, pc, timer, subs, got, host, deleted, token, saved>>

SetFanMode(d) ==
    /\ call = NoCall
    /\ \E value \in FanModes : triggerCapabilityListener(d, "setFanMode", "fan_mode", value)
    /\ response' = NoResponse
    /\ UNCHANGED <<dev, pc, timer, subs, got, host, deleted, token, saved>>

\* setResumeSchedule returns the promise of client.resumeSchedule
SetResumeSchedule(d) ==
    /\ call = NoCall
    /\ call' = [Write("resumeSchedule", EmptyObject, resumeScheduleData(EmptyObject))
                  EXCEPT !.entry = "setResumeSchedule"]
    /\ events' = [events EXCEPT ![d] = << >>]
    /\ result' = Pending
    /\ response' = NoResponse
    /\ UNCHANGED <<dev, pc, timer, subs, got, host, deleted, token, saved>>

\* the device objects and failures the GET of a device's write meets
DeviceSnapshotResponses ==
    { OkJson([ deviceID |-> "LCC-1",
               changeableValues |-> [ mode |-> "Heat", heatSetpoint |-> 20,
                                      coolSetpoint |-> 25,
                                      thermostatSetpointStatus |-> "NoHold" ] @@ n ]) :
        n \in Optional("nextPeriodTime", {"18:00"}) }
      \cup { OkJson(EmptyObject), NetworkError,
             Fault(<<"policy:">> \o RATE_LIMIT_SIGNATURE) }

SettleDeviceSnapshot == SnapshotSettles(DeviceSnapshotResponses)

SettleDevicePost == PostSettles(PostResponses)

\* a device that was initialised, polled or not yet, in the unit it was told
InitWrite ==
    /\ \E caps \in CapSets, polled \in BOOLEAN, units \in {"undefined"} \cup Units :
         dev = [x \in {1} |->
                  [NewDevice(caps) EXCEPT
                     !.units = units,
                     !.val = [c \in Capabilities |->
                                IF polled /\ c = "target_temperature" THEN Some(20)
                                ELSE IF polled /\ c = "target_temperature.cool"
                                                /\ c \in caps THEN Some(25)
                                ELSE IF polled /\ c = "custom_thermostat_mode"
                                                /\ c \in caps THEN "heat"
                                ELSE IF polled /\ c = "custom_ac_mode"
                                                /\ c \in caps THEN "Heat"
                                ELSE @[c]]]]
    /\ pc = [x \in {1} |-> "idle"]
    /\ timer = [x \in {1} |-> TRUE]
    /\ subs = {1}
    /\ got = [x \in {1} |-> Pending]
    /\ events = [x \in {1} |-> <<>>]
    /\ host = "stores null"
    /\ deleted = {}
    /\ token = None
    /\ saved = None
    /\ response = NoResponse
    /\ result = Pending
    /\ call = NoCall

NextWrite ==
    \/ \E d \in Devices : OnMultipleCapabilities(d)
    \/ \E d \in Devices : OnFanCapability(d)
    \/ \E d \in Devices : SetCustomThermostatMode(d)
    \/ \E d \in Devices : SetCustomACMode(d)
    \/ \E d \in Devices : SetCoolSetpoint(d)
    \/ \E d \in Devices : SetFanMode(d)
    \/ \E d \in Devices : SetResumeSchedule(d)
    \/ SettleDeviceSnapshot
    \/ SettleDevicePost
    \/ CallDone

SpecWrite == InitWrite /\ [][NextWrite]_vars

---------------------------------------------------------------------------
(* A device that polls until it is removed *)

\* onOAuth2Deleted: the poll interval is cleared; the listener on the client stays,
\* and a fetch in flight goes on
OnOAuth2Deleted(d) ==
    /\ pc[d] # "new"
    /\ d \notin deleted
    /\ deleted' = deleted \cup {d}
    /\ timer' = [timer EXCEPT ![d] = FALSE]
    /\ UNCHANGED <<dev, pc, subs, got, events, host, token, saved, call, response, result>>

PollDevices == { 1 }

OfflinePayload ==
    [ units |-> UNIT_FAHRENHEIT, indoorTemperature |-> 50, isAlive |-> FALSE,
      changeableValues |-> [mode |-> "Off", heatSetpoint |-> 20, coolSetpoint |-> 25] ]

PollThermostatResponses ==
    { OkJson(AlivePayload), OkJson(OfflinePayload), OkJson([isAlive |-> TRUE]),
      Fault(<<"policy:">> \o RATE_LIMIT_SIGNATURE), NetworkError }

PollFanResponses ==
    { OkJson([mode |-> "On"]), OkJson(EmptyObject), NetworkError }

PollSettleThermostat(d) == Settle(d, "getDevice", PollThermostatResponses)

PollSettleFan(d) == Settle(d, "getFan", PollFanResponses)

InitPoll ==
    /\ \E caps \in CapSets : dev = [x \in PollDevices |-> NewDevice(caps)]
    /\ pc = [x \in PollDevices |-> "new"]
    /\ timer = [x \in PollDevices |-> FALSE]
    /\ subs = {}
    /\ got = [x \in PollDevices |-> Pending]
    /\ events = [x \in PollDevices |-> <<>>]
    /\ host \in Hosts
    /\ deleted = {}
    /\ token = None
    /\ saved = None
    /\ call = NoCall
    /\ response = NoResponse
    /\ result = Pending

NextPoll ==
    \/ \E d \in Devices : OnOAuth2Init(d)
    \/ \E d \in Devices : TimerFires(d)
    \/ \E d \in Devices : PollSettleThermostat(d)
    \/ \E d \in Devices : ResumeThermostat(d)
    \/ \E d \in Devices : PollSettleFan(d)
    \/ \E d \in Devices : ResumeFan(d)
    \/ \E d \in Devices : OnOAuth2Deleted(d)

SpecPoll == InitPoll /\ [][NextPoll]_vars

\* the platform's interval keeps firing while it is armed
SpecPollFair == SpecPoll /\ \A d \in PollDevices : WF_vars(TimerFires(d))

---------------------------------------------------------------------------
(* Reconciliation step by step, with writes of the same device in between *)

\* the parse steps of _fetchDeviceData, lines 230-241, each awaited in turn; a pass
\* stands at gotDevice before the first and then at the step it runs next
ParseSteps ==
    << "gotDevice", "_parseTargetTemperature", "_parseThermostatMode", "_parseACMode",
       "_parseAlive" >>

\* the step after step at, "done" after the last
stepAfter(at) ==
    LET i == CHOOSE k \in 1..Len(ParseSteps) : ParseSteps[k] = at
    IN  IF i = Len(ParseSteps) THEN "done" ELSE ParseSteps[i + 1]

\* one awaited parse step of the pass on payload o, from device state D
parseStep(D, o, at, h) ==
    LET s == Run(D, <<>>)
    IN  CASE at = "gotDevice" -> parseMeasuredTemperature(s, o, h)
          [] at = "_parseTargetTemperature" -> parseTargetTemperature(s, o)
          [] at = "_parseThermostatMode" ->
               IF hasCapability(D, "custom_thermostat_mode")
               THEN parseThermostatMode(s, o) ELSE s
          [] at = "_parseACMode" ->
               IF hasCapability(D, "custom_ac_mode") THEN parseACMode(s, o) ELSE s
          [] at = "_parseAlive" -> Step(parseAlive(s, o), <<"log", "completed">>)

\* _fetchDeviceData goes on by one await: a fetch that failed, a payload without
\* changeableValues or a first step that throws end the try block as in
\* ResumeThermostat; otherwise the step the pass stands at runs
ReconcileStep(d) ==
    /\ pc[d] \in { ParseSteps[i] : i \in 1..Len(ParseSteps) }
    /\ IF pc[d] = "gotDevice"
          /\ LET whole == fetchThermostat(dev[d], got[d], host)
             IN  whole.caught \/ whole.returned
       THEN ResumeThermostat(d)
       ELSE LET run == parseStep(dev[d], got[d].body.o, pc[d], host)
                last == stepAfter(pc[d]) = "done"
                fan == last /\ fetchesFan(dev[d], run)
            IN  /\ dev' = [dev EXCEPT ![d] = run.dev]
                /\ events' = [events EXCEPT ![d] =
                                IF fan THEN @ \o Append(run.ev, <<"getFan">>)
                                ELSE @ \o run.ev]
                /\ pc' = [pc EXCEPT ![d] = IF fan THEN "getFan"
                                           ELSE IF last THEN "idle"
                                           ELSE stepAfter(pc[d])]
                /\ got' = [got EXCEPT ![d] = IF last THEN Pending ELSE @]
                /\ UNCHANGED <<deleted, token, saved, call, timer, subs, host,
                               response, result>>

FahrenheitPayload ==
    [ units |-> UNIT_FAHRENHEIT, indoorTemperature |-> 50, isAlive |-> TRUE,
      changeableValues |-> [mode |-> "Off", heatSetpoint |-> 68, coolSetpoint |-> 77] ]

StepPayloads == { AlivePayload, FahrenheitPayload }

StepThermostatResponses == { OkJson(p) : p \in StepPayloads } \cup { NetworkError }

StepSettleThermostat(d) == Settle(d, "getDevice", StepThermostatResponses)

StepSettleFan(d) == Settle(d, "getFan", PollFanResponses)

InitSteps ==
    /\ \E caps \in CapSets : dev = [x \in PollDevices |-> NewDevice(caps)]
    /\ pc = [x \in PollDevices |-> "new"]
    /\ timer = [x \in PollDevices |-> FALSE]
    /\ subs = {}
    /\ got = [x \in PollDevices |-> Pending]
    /\ events = [x \in PollDevices |-> <<>>]
    /\ host = "stores null"
    /\ deleted = {}
    /\ token = None
    /\ saved = None
    /\ call = NoCall
    /\ response = NoResponse
    /\ result = Pending

NextSteps ==
    \/ \E d \in Devices : OnOAuth2Init(d)
    \/ \E d \in Devices : TimerFires(d)
    \/ \E d \in Devices : StepSettleThermostat(d)
    \/ \E d \in Devices : ReconcileStep(d)
    \/ \E d \in Devices : StepSettleFan(d)
    \/ \E d \in Devices : ResumeFan(d)
    \/ \E d \in Devices : (pc[d] # "new" /\ SetCoolSetpoint(d))
    \/ \E d \in Devices : (pc[d] # "new" /\ SetCustomACMode(d))
    \/ SettleDeviceSnapshot
    \/ SettleDevicePost
    \/ CallDone

SpecSteps == InitSteps /\ [][NextSteps]_vars

---------------------------------------------------------------------------
(* Poll cycles of one device that overlap *)

\* a run of _fetchDeviceData started while another run for the same device is still
\* in flight: it awaits getDevice on its own
Overlapping(d) ==
    [ op |-> "_fetchDeviceData", device |-> d, pc |-> "getDevice", got |-> Pending ]

\* the poll interval fires while a cycle of the device is in flight (the initial
\* fetch of onOAuth2Init included): the callback calls _fetchDeviceData all the same
TimerFiresInFlight(d) ==
    /\ pc[d] \notin { "new", "idle" }
    /\ timer[d]
    /\ call = NoCall
    /\ call' = Overlapping(d)
    /\ UNCHANGED <<dev, pc, timer, subs, got, events, host, deleted, token, saved,
                   response, result>>

\* the call the overlapping run awaits settles
OverlapSettle(at, R) ==
    /\ call.op = "_fetchDeviceData"
    /\ call.pc = at
    /\ \E r \in R :
         LET res == get(r)
         IN  /\ dev' = emitRateLimited(res)
             /\ call' = [call EXCEPT !.got = res,
                                     !.pc = IF at = "getDevice" THEN "gotDevice"
                                            ELSE "gotFan"]
    /\ UNCHANGED <<pc, timer, subs, got, events, host, deleted, token, saved,
                   response, result>>

OverlapSettleThermostat == OverlapSettle("getDevice", PollThermostatResponses)

OverlapSettleFan == OverlapSettle("getFan", PollFanResponses)

\* the overlapping run resumes after getDevice: it reconciles what it fetched into
\* the device as it is by then, and goes on to getFan or ends
OverlapResumeThermostat ==
    /\ call.op = "_fetchDeviceData"
    /\ call.pc = "gotDevice"
    /\ LET d == call.device
           run == fetchThermostat(dev[d], call.got, host)
       IN  /\ dev' = [dev EXCEPT ![d] = run.dev]
           /\ call' = IF fetchesFan(dev[d], run)
                      THEN [call EXCEPT !.pc = "getFan", !.got = Pending]
                      ELSE NoCall
    /\ UNCHANGED <<pc, timer, subs, got, events, host, deleted, token, saved,
                   response, result>>

\* the overlapping run resumes after getFan and runs to its end
OverlapResumeFan ==
    /\ call.op = "_fetchDeviceData"
    /\ call.pc = "gotFan"
    /\ LET d == call.device
           run == fetchFan(dev[d], call.got)
       IN  dev' = [dev EXCEPT ![d] = run.dev]
    /\ call' = NoCall
    /\ UNCHANGED <<pc, timer, subs, got, events, host, deleted, token, saved,
                   response, result>>

InitOverlap ==
    /\ InitPoll
    /\ host = "stores null"

NextOverlap ==
    \/ \E d \in Devices : OnOAuth2Init(d)
    \/ \E d \in Devices : TimerFires(d)
    \/ \E d \in Devices : TimerFiresInFlight(d)
    \/ \E d \in Devices : PollSettleThermostat(d)
    \/ \E d \in Devices : ResumeThermostat(d)
    \/ \E d \in Devices : PollSettleFan(d)
    \/ \E d \in Devices : ResumeFan(d)
    \/ OverlapSettleThermostat
    \/ OverlapResumeThermostat
    \/ OverlapSettleFan
    \/ OverlapResumeFan

SpecOverlap == InitOverlap /\ [][NextOverlap]_vars

---------------------------------------------------------------------------
(* HoneywellOAuth2Client: onRefreshToken called by several callers at once *)

\* the callers of onRefreshToken on one client
Callers == { 1, 2 }

\* what the token URL may answer to a refresh: a token with a new refresh credential,
\* a token without one, a refusal, no answer
RefreshResponses ==
    { NetworkError,
      OkJson([access_token |-> "a2", refresh_token |-> "r2"]),
      OkJson([access_token |-> "a2"]),
      [ status |-> 400, headers |-> JsonHeaders,
        text |-> Json([error |-> "invalid_grant"]) ] }

\* onRefreshToken of caller c up to its fetch of the token URL, lines 132-148: the
\* request carries the refresh_token stored then; nothing asks whether another call
\* is under way
CallerRefreshToken(c) ==
    /\ pc[c] = "idle"
    /\ IF refreshable(token)
       THEN /\ pc' = [pc EXCEPT ![c] = "fetch"]
            /\ events' = [events EXCEPT ![c] =
                            << <<"POST token", token[1].refresh_token>> >>]
            /\ got' = [got EXCEPT ![c] = Pending]
       ELSE /\ pc' = [pc EXCEPT ![c] = "done"]
            /\ events' = [events EXCEPT ![c] = <<>>]
            /\ got' = [got EXCEPT ![c] = Throw("OAuth2Error", <<>>)]
    /\ UNCHANGED <<dev, timer, subs, host, deleted, token, saved, call, response, result>>

\* onRefreshToken of caller c after its fetch, lines 149-157
CallerSettleRefreshToken(c) ==
    /\ pc[c] = "fetch"
    /\ pc' = [pc EXCEPT ![c] = "done"]
    /\ \E r \in RefreshResponses :
         IF r = NetworkError \/ ~ok(r)
         THEN /\ got' = [got EXCEPT ![c] =
                           Throw(IF r = NetworkError THEN "FetchError" ELSE "Error", <<>>)]
              /\ UNCHANGED <<token, saved>>
         ELSE \E made \in onHandleRefreshTokenResponse(r, token[1]) :
                IF made.kind = "throw"
                THEN /\ got' = [got EXCEPT ![c] = made]
                     /\ UNCHANGED <<token, saved>>
                ELSE /\ token' = Some(made.body)
                     /\ saved' = token'
                     /\ got' = [got EXCEPT ![c] = Return(made.body, <<>>)]
    /\ UNCHANGED <<dev, timer, subs, events, host, deleted, call, response, result>>

\* caller c has its outcome
CallerDone(c) ==
    /\ pc[c] = "done"
    /\ pc' = [pc EXCEPT ![c] = "idle"]
    /\ got' = [got EXCEPT ![c] = Pending]
    /\ events' = [events EXCEPT ![c] = <<>>]
    /\ UNCHANGED <<dev, timer, subs, host, deleted, token, saved, call, response, result>>

InitRefresh ==
    /\ dev = << >>
    /\ pc = [c \in Callers |-> "idle"]
    /\ timer = << >>
    /\ subs = {}
    /\ got = [c \in Callers |-> Pending]
    /\ events = [c \in Callers |-> <<>>]
    /\ host = "stores null"
    /\ deleted = {}
    /\ response = NoResponse
    /\ result = Pending
    /\ token \in StoredTokens
    /\ saved = token
    /\ call = NoCall

NextRefresh ==
    \/ \E c \in Callers : CallerRefreshToken(c)
    \/ \E c \in Callers : CallerSettleRefreshToken(c)
    \/ \E c \in Callers : CallerDone(c)

SpecRefresh == InitRefresh /\ [][NextRefresh]_vars

---------------------------------------------------------------------------
(* Devices of one client, some removed, and the rate limit *)

NextRemoval ==
    \/ \E d \in Devices : OnOAuth2Init(d)
    \/ \E d \in Devices : TimerFires(d)
    \/ \E d \in Devices : RateSettleThermostat(d)
    \/ \E d \in Devices : ResumeThermostat(d)
    \/ \E d \in Devices : RateSettleFan(d)
    \/ \E d \in Devices : ResumeFan(d)
    \/ \E d \in Devices : OnOAuth2Deleted(d)

SpecRemoval == InitRate /\ [][NextRemoval]_vars

---------------------------------------------------------------------------
(* Properties *)

\* the handler of device d did e in the current poll cycle
did(d, e) == \E i \in 1..Len(events[d]) : events[d][i] = e

\* the same, in the next state
did_(d, e) == \E i \in 1..Len(events'[d]) : events'[d][i] = e

\* the capability values and the unit setting of a device
values(D) == <<D.val, D.units>>

\* C1: in a poll cycle of a fan-capable device, a failed thermostat fetch is followed
\* by the fan fetch, whose mode is stored in that cycle; and a failed fan fetch leaves
\* every capability value, the unit setting and the availability as they were.
C1_FetchesIsolated ==
    [][\A d \in Devices :
        /\ (pc[d] = "gotDevice" /\ pc'[d] # "gotDevice" /\ got[d].kind = "throw"
              /\ hasCapability(dev[d], "fan_mode"))
           => (pc'[d] = "getFan" /\ did_(d, <<"getFan">>))
        /\ (pc[d] = "getFan" /\ pc'[d] = "gotFan") => values(dev'[d]) = values(dev[d])
        /\ (pc[d] = "gotFan" /\ pc'[d] = "idle")
           => IF got[d].kind = "throw"
              THEN dev'[d] = dev[d]
              ELSE (got[d].body.t = "object" /\ hasOwnProperty(got[d].body.o, "mode"))
                   => dev'[d].val["fan_mode"] = got[d].body.o.mode
    ]_vars

\* a cycle whose thermostat fetch failed and whose fan fetch stored the fan mode
C1_Witness ==
    \E d \in Devices :
        /\ pc[d] = "idle"
        /\ did(d, <<"error", "failed to get device">>)
        /\ did(d, <<"setCapabilityValue", "fan_mode">>)
        /\ dev[d].val["fan_mode"] = "On"

\* device d resumes _fetchDeviceData with the settled result of getDevice
resumesThermostat(d) == pc[d] = "gotDevice" /\ pc'[d] # "gotDevice"

\* the settled result of the call of d is a JSON object
gotObject(d) == got[d].kind = "return" /\ got[d].body.t = "object"

\* how often the handler of d did e, in the next state
count_(d, e) == Cardinality({ i \in 1..Len(events'[d]) : events'[d][i] = e })

\* the first position of e in the next state's events of d (0: not there)
first_(d, e) ==
    IF did_(d, e) THEN CHOOSE i \in 1..Len(events'[d]) :
                          /\ events'[d][i] = e
                          /\ \A j \in 1..(i - 1) : events'[d][j] # e
    ELSE 0

\* C2 (as claimed): a thermostat payload without changeableValues skips only the
\* setpoint and mode steps: the unit setting is still mirrored, availability still
\* follows isAlive, and a fan-capable device still fetches the fan.
C2_OnlyChangeableStepsSkipped ==
    [][\A d \in Devices :
        (resumesThermostat(d) /\ gotObject(d)
           /\ ~hasOwnProperty(got[d].body.o, "changeableValues"))
        => LET o == got[d].body.o
           IN  /\ hasOwnProperty(o, "units") => dev'[d].units = o.units
               /\ hasOwnProperty(o, "isAlive") => dev'[d].available = o.isAlive
               /\ hasCapability(dev[d], "fan_mode") => pc'[d] = "getFan"
    ]_vars

\* C3 (as claimed): a thermostat payload without units leaves the unit setting and
\* the measured temperature unchanged, one without isAlive leaves the availability
\* unchanged, one without indoorTemperature leaves the measured temperature unchanged.
C3_MissingFieldKeepsValue ==
    [][\A d \in Devices :
        (resumesThermostat(d) /\ gotObject(d))
        => LET o == got[d].body.o
               measure(D) == D.val["measure_temperature"]
           IN  /\ ~hasOwnProperty(o, "units")
                  => (dev'[d].units = dev[d].units /\ measure(dev'[d]) = measure(dev[d]))
               /\ ~hasOwnProperty(o, "isAlive")
                  => dev'[d].available = dev[d].available
               /\ ~hasOwnProperty(o, "indoorTemperature")
                  => measure(dev'[d]) = measure(dev[d])
    ]_vars

trigger(m) == <<"trigger", "thermostat_mode_changed", m>>

\* the handler of d emitted the mode-changed notification, in the next state
triggered_(d) == \E m \in {"heat", "off", "cool"} : did_(d, trigger(m))

\* C5: thermostat reconciliation is idempotent.  In the state a poll leaves behind,
\* reconciling the same snapshot once more changes nothing of the local state
\* (measured temperature, unit setting, setpoints, mode, availability and its reason)
\* and emits no mode-changed notification; the first application emits it at most
\* once, and only when the snapshot's mode differs from the mode stored before.
C5_ReconcileIdempotent ==
    [][\A d \in Devices :
        (resumesThermostat(d) /\ got[d].kind = "return")
        => LET again == fetchThermostat(dev'[d], got[d], host)
               modes == { m \in {"heat", "off", "cool"} : did_(d, trigger(m)) }
           IN  /\ again.dev = dev'[d]
               /\ \A i \in 1..Len(again.ev) : again.ev[i][1] # "trigger"
               /\ \A m \in modes :
                    /\ count_(d, trigger(m)) = 1
                    /\ modes = {m}
                    /\ dev[d].val["custom_thermostat_mode"] # m
                    /\ dev'[d].val["custom_thermostat_mode"] = m
    ]_vars

\* a poll that changed the stored mode of an unavailable device, made it available
\* and emitted the notification
C5_Witness ==
    \E d \in Devices :
        /\ pc[d] = "idle"
        /\ did(d, trigger("off"))
        /\ did(d, <<"setAvailable">>)
        /\ dev[d].val["custom_thermostat_mode"] = "off"
        /\ dev[d].units = UNIT_FAHRENHEIT

\* the mode a completed poll of d reconciled: the payload reports one, and every step
\* of the poll ran
reconciledMode(d) ==
    /\ resumesThermostat(d) /\ gotObject(d)
    /\ hasOwnProperty(got[d].body.o, "changeableValues")
    /\ hasOwnProperty(got[d].body.o.changeableValues, "mode")
    /\ did_(d, <<"log", "completed">>)

\* C6 (as claimed): with either mode capability the stored mode is the lower-cased
\* remote mode, and the mode-changed notification is emitted, before the store,
\* exactly when that value differs from the mode stored before.
C6_ModeLowerCasedAndNotified ==
    [][\A d \in Devices :
        reconciledMode(d)
        => LET mode == toLowerCase(got[d].body.o.changeableValues.mode)
           IN  \A c \in {"custom_thermostat_mode", "custom_ac_mode"} \cap dev[d].caps :
                 /\ dev'[d].val[c] = mode
                 /\ did_(d, trigger(mode)) <=> dev[d].val[c] # mode
                 /\ did_(d, trigger(mode))
                    => first_(d, trigger(mode)) < first_(d, <<"setCapabilityValue", c>>)
    ]_vars

\* C6 (amended): with custom_thermostat_mode the stored mode is the lower-cased remote
\* mode, and the notification is emitted, before the store, exactly when that value
\* differs from the mode stored before; with custom_ac_mode the remote mode is stored
\* as reported, and reconciling it emits no notification.
C6_ThermostatModeNotified ==
    [][\A d \in Devices :
        reconciledMode(d)
        => LET remote == got[d].body.o.changeableValues.mode
               mode == CASE remote = "Heat" -> "heat" [] remote = "Off" -> "off"
               hasT == "custom_thermostat_mode" \in dev[d].caps
               hasAC == "custom_ac_mode" \in dev[d].caps
           IN  /\ hasT => /\ dev'[d].val["custom_thermostat_mode"] = mode
                          /\ did_(d, trigger(mode))
                             <=> dev[d].val["custom_thermostat_mode"] # mode
                          /\ did_(d, trigger(mode))
                             => first_(d, trigger(mode))
                                < first_(d, <<"setCapabilityValue", "custom_thermostat_mode">>)
               /\ hasAC => dev'[d].val["custom_ac_mode"] = remote
               /\ ~hasT => ~triggered_(d)
    ]_vars

\* a poll that found the stored mode heat, was told Off, notified and stored off
C6_Witness ==
    \E d \in Devices :
        /\ did(d, trigger("off"))
        /\ did(d, <<"setCapabilityValue", "custom_thermostat_mode">>)
        /\ dev[d].val["custom_thermostat_mode"] = "off"
        /\ dev[d].val["target_temperature"] = Some(20)

at(res, e) ==
    IF \E i \in 1..Len(res.trace) : res.trace[i] = e
    THEN CHOOSE i \in 1..Len(res.trace) : res.trace[i] = e
    ELSE 0

\* the response declares JSON and its text parses to an object whose
\* fault.faultstring contains 'Rate limit quota violation.'
rateLimitBody(r) ==
    /\ "Content-Type" \in DOMAIN r.headers
    /\ Len(r.headers["Content-Type"]) >= 1
    /\ r.headers["Content-Type"][1] = "application/json"
    /\ r.text.kind = "json"
    /\ "fault" \in DOMAIN r.text.value
    /\ "faultstring" \in DOMAIN r.text.value.fault
    /\ LET fs == r.text.value.fault.faultstring
       IN  \E i \in 1..(Len(fs) - 1) : fs[i] = "Rate limit quota" /\ fs[i + 1] = "violation."

\* C8: for a response with a failure status the interpreter throws and returns no
\* body; it emits rateLimited exactly when the parsed body is an object whose
\* fault.faultstring contains the signature, and then before it classifies and throws.
C8_FailureRaisesAndDetects ==
    (result # Pending /\ response.status \notin 200..299)
    => /\ result.kind = "throw"
       /\ "body" \notin DOMAIN result
       /\ emitted(result) <=> rateLimitBody(response)
       /\ emitted(result)
          => (at(result, "emit:rateLimited") < at(result, "classify")
                /\ at(result, "classify") < at(result, "throw"))

\* a 500 whose faultstring carries the signature inside a longer text was interpreted
C8_Witness ==
    /\ result # Pending
    /\ response.status = 500
    /\ rateLimitBody(response)
    /\ Len(response.text.value.fault.faultstring) > Len(RATE_LIMIT_SIGNATURE)
    /\ result.kind = "throw"
    /\ emitted(result)

\* C9: when a call made through the client detects a rate limit, the call fails, and
\* every device listening on that client is unavailable with the rate-limit reason,
\* which is not the reason aliveness reconciliation gives; the handler that awaited
\* the call then sees its failure.
C9_RateLimitReachesAllDevices ==
    [][\A d \in Devices :
        /\ (pc[d] \in {"getDevice", "getFan"} /\ pc'[d] \in {"gotDevice", "gotFan"}
              /\ emitted(got'[d]))
           => /\ got'[d].kind = "throw"
              /\ \A x \in subs : /\ ~dev'[x].available
                                  /\ dev'[x].reason = RATE_LIMITED_REASON
                                  /\ dev'[x].reason # OFFLINE_REASON
              /\ \A x \in Devices : pc[x] # "new" => x \in subs
        /\ (pc[d] = "gotDevice" /\ pc'[d] # "gotDevice" /\ emitted(got[d]))
           => did_(d, <<"error", "failed to get device">>)
        /\ (pc[d] = "gotFan" /\ pc'[d] # "gotFan" /\ emitted(got[d]))
           => did_(d, <<"error", "failed to get fan">>)
    ]_vars

\* the call of one device was rate limited and the other device, idle after a
\* completed poll, is unavailable with the rate-limit reason
C9_Witness ==
    \E d \in Devices, x \in Devices :
        /\ d # x
        /\ pc[d] = "gotDevice" /\ emitted(got[d])
        /\ pc[x] = "idle" /\ did(x, <<"log", "completed">>)
        /\ ~dev[x].available /\ dev[x].reason = RATE_LIMITED_REASON

\* C10: a success response without content is no error: status 204 returns no body,
\* and a success status with a JSON content type and an empty text returns the empty
\* object.
C10_EmptySuccessIsNoError ==
    result # Pending
    => /\ response.status = 204
          => (result.kind = "return" /\ result.body = [t |-> "undefined"])
       /\ (response.status \in 200..299 /\ response.status # 204
             /\ "Content-Type" \in DOMAIN response.headers
             /\ response.headers["Content-Type"][1] = "application/json"
             /\ response.text.kind = "empty")
          => (result.kind = "return" /\ result.body.t = "object"
                /\ DOMAIN result.body.o = {})

\* a 200 with content type application/json; charset=utf-8 and an empty text was
\* interpreted
C10_Witness ==
    /\ result # Pending
    /\ response.status = 200
    /\ "Content-Type" \in DOMAIN response.headers
    /\ Len(response.headers["Content-Type"]) = 2
    /\ response.headers["Content-Type"][1] = "application/json"
    /\ response.text.kind = "empty"
    /\ result.kind = "return"

\* C11 (as claimed): when the token endpoint answers the code exchange with a status
\* that is no success, onGetTokenByCode throws an auth error; it returns a token only
\* for a success response.
C11_ExchangeFailsOnNonSuccess ==
    (call # NoCall /\ call.op = "onGetTokenByCode" /\ call.pc = "done"
       /\ response # NetworkError)
    => /\ ~ok(response) => (result.kind = "throw" /\ result.error = "OAuth2Error")
       /\ result.kind = "return" => ok(response)

\* C12: onRefreshToken without a stored, refreshable token throws an auth error and
\* sends nothing; with a response that is not ok it throws; whenever it throws, the
\* stored token is the one from before the call and nothing was saved; when it
\* returns, the stored token is the new one, it was saved, and it is what is returned.
C12_RefreshAllOrNothing ==
    (call # NoCall /\ call.op = "onRefreshToken" /\ call.pc = "done")
    => /\ (call.before = << >> \/ call.before[1].refresh_token = "undefined")
          => (result.kind = "throw" /\ result.error = "OAuth2Error" /\ call.sent = <<>>)
       /\ (response # NoResponse /\ (response = NetworkError \/ response.status \notin 200..299))
          => result.kind = "throw"
       /\ result.kind = "throw"
          => (token = call.before /\ call.saves = 0)
       /\ result.kind = "return"
          => /\ call.sent = <<"POST token">>
             /\ response.status \in 200..299
             /\ token = <<result.body>>
             /\ saved = <<result.body>>
             /\ call.saves = 1

\* a refresh replaced the stored token by a different one, saved and returned it
C12_Witness ==
    /\ call # NoCall /\ call.op = "onRefreshToken" /\ call.pc = "done"
    /\ result.kind = "return"
    /\ token # call.before
    /\ saved = token

\* a thermostat write composed its command and awaits the POST: the command, and the
\* changeableValues of the device the write fetched
composed == call # NoCall /\ call.op \in {"setThermostat", "resumeSchedule"} /\ call.pc = "post"
command == call.sent[2].json
snapshot == response.text.value.changeableValues

\* object o has field k with value v
has(o, k, v) == k \in DOMAIN o /\ o[k] = v

\* field k of the command is field k of the snapshot (both absent, or equal)
same(k) ==
    /\ k \in DOMAIN command <=> k \in DOMAIN snapshot
    /\ k \in DOMAIN command => command[k] = snapshot[k]

\* the snapshot has a hold until the next period, but no next period
holdWithoutPeriod ==
    /\ "thermostatSetpointStatus" \in DOMAIN snapshot
    /\ snapshot.thermostatSetpointStatus = "HoldUntil"
    /\ ~("nextPeriodTime" \in DOMAIN snapshot /\ snapshot.nextPeriodTime # "null")

\* C13 (as claimed): a write that supplies nothing composes a command whose mode,
\* heatSetpoint, coolSetpoint and thermostatSetpointStatus are the snapshot's.
C13_EmptyPartialIsSnapshot ==
    (composed /\ call.op = "setThermostat" /\ call.partial = EmptyObject)
    => \A k \in {"mode", "heatSetpoint", "coolSetpoint", "thermostatSetpointStatus"} : same(k)

\* C13 (amended): a write that supplies nothing composes a command whose mode,
\* heatSetpoint and coolSetpoint are the snapshot's, and whose status is the
\* snapshot's unless that is HoldUntil without a string nextPeriodTime, when it is
\* PermanentHold.
C13_EmptyPartialIsSnapshotUpToHold ==
    (composed /\ call.op = "setThermostat" /\ call.partial = EmptyObject)
    => /\ \A k \in {"mode", "heatSetpoint", "coolSetpoint"} : same(k)
       /\ IF holdWithoutPeriod
          THEN command.thermostatSetpointStatus = "PermanentHold"
          ELSE same("thermostatSetpointStatus")

\* a write that supplied nothing composed the command of a snapshot on NoHold
C13_Witness ==
    /\ composed /\ call.op = "setThermostat" /\ call.partial = EmptyObject
    /\ has(command, "mode", "Heat") /\ has(command, "heatSetpoint", 20)
    /\ has(command, "coolSetpoint", 25)
    /\ has(command, "thermostatSetpointStatus", "NoHold")
    /\ has(snapshot, "thermostatSetpointStatus", "NoHold")

\* the status the command would have before the hold policy: the caller's, else the
\* snapshot's
wouldBe ==
    IF "thermostatSetpointStatus" \in DOMAIN call.partial
    THEN call.partial.thermostatSetpointStatus
    ELSE IF "thermostatSetpointStatus" \in DOMAIN snapshot
         THEN snapshot.thermostatSetpointStatus
         ELSE "undefined"

\* C14: a command with status HoldUntil carries the string nextPeriodTime of the
\* snapshot fetched for the write; when the status would be HoldUntil and the
\* snapshot has no string nextPeriodTime, the command has status PermanentHold and
\* no nextPeriodTime.
C14_HoldUntilCarriesNextPeriod ==
    composed
    => /\ ("thermostatSetpointStatus" \in DOMAIN command
             /\ command.thermostatSetpointStatus = "HoldUntil")
          => /\ "nextPeriodTime" \in DOMAIN snapshot
             /\ snapshot.nextPeriodTime # "null"
             /\ "nextPeriodTime" \in DOMAIN command
             /\ command.nextPeriodTime = snapshot.nextPeriodTime
       /\ (wouldBe = "HoldUntil"
             /\ ~("nextPeriodTime" \in DOMAIN snapshot /\ snapshot.nextPeriodTime # "null"))
          => /\ command.thermostatSetpointStatus = "PermanentHold"
             /\ "nextPeriodTime" \notin DOMAIN command

\* a heat setpoint with a requested HoldUntil met a snapshot whose nextPeriodTime is
\* null, and was composed with PermanentHold
C14_Witness ==
    /\ composed /\ call.op = "setThermostat"
    /\ call.partial = [heatSetpoint |-> <<21>>, thermostatSetpointStatus |-> "HoldUntil"]
    /\ "nextPeriodTime" \in DOMAIN snapshot /\ snapshot.nextPeriodTime = "null"
    /\ has(command, "thermostatSetpointStatus", "PermanentHold")
    /\ has(command, "heatSetpoint", 21)

\* C15: the command of resumeSchedule has status NoHold whatever the snapshot's status
\* and whatever else the caller passed; its mode and setpoints are the snapshot's.
C15_ResumeIsNoHold ==
    (composed /\ call.op = "resumeSchedule")
    => /\ command.thermostatSetpointStatus = "NoHold"
       /\ "nextPeriodTime" \notin DOMAIN command
       /\ \A k \in {"mode", "heatSetpoint", "coolSetpoint"} : same(k)

\* resumeSchedule was called with a mode, a setpoint and a hold status of the caller's
\* on a device in PermanentHold
C15_Witness ==
    /\ composed /\ call.op = "resumeSchedule"
    /\ "mode" \in DOMAIN call.args /\ "heatSetpoint" \in DOMAIN call.args
    /\ "thermostatSetpointStatus" \in DOMAIN call.args
    /\ call.args.thermostatSetpointStatus = "HoldUntil"
    /\ has(snapshot, "thermostatSetpointStatus", "PermanentHold")
    /\ has(command, "thermostatSetpointStatus", "NoHold")

\* the requests of a write are one GET of the device, then at most one POST, sent only
\* for a device object with deviceID and changeableValues; a write that ended after
\* the GET alone, or before it, failed
getThenPost ==
    (call # NoCall /\ call.op \in {"setThermostat", "resumeSchedule"})
    => /\ Len(call.sent) <= 2
       /\ Len(call.sent) >= 1 => call.sent[1] = [method |-> "GET", path |-> "thermostat"]
       /\ call.pc = "getDevice" => Len(call.sent) = 1
       /\ Len(call.sent) = 2
          => (call.sent[2].method = "POST" /\ call.pc \in {"post", "done"})
       /\ call.pc = "post"
          => /\ Len(call.sent) = 2
             /\ response.status \in 200..299
             /\ response.text.kind = "json"
             /\ "deviceID" \in DOMAIN response.text.value
             /\ "changeableValues" \in DOMAIN response.text.value
       /\ (call.pc = "done" /\ Len(call.sent) < 2) => result.kind = "throw"

\* C16 (as claimed): a write issues one GET and then at most one POST, the fields the
\* caller did not supply are those of the GET's response, and a GET that fails or
\* returns no device with deviceID and changeableValues fails the write without a POST.
C16_LiveGetThenPost ==
    /\ getThenPost
    /\ composed
       => \A k \in {"mode", "heatSetpoint", "coolSetpoint", "thermostatSetpointStatus"} :
            k \notin DOMAIN call.partial => same(k)

\* C16 (amended): as claimed, except that a status the caller did not supply is
\* PermanentHold when the GET's response has HoldUntil without a string nextPeriodTime.
C16_LiveGetThenPostUpToHold ==
    /\ getThenPost
    /\ composed
       => /\ \A k \in {"mode", "heatSetpoint", "coolSetpoint"} :
               k \notin DOMAIN call.partial => same(k)
          /\ "thermostatSetpointStatus" \notin DOMAIN call.partial
             => IF holdWithoutPeriod
                THEN command.thermostatSetpointStatus = "PermanentHold"
                ELSE same("thermostatSetpointStatus")

\* a write that supplied only a mode has sent its GET and then its POST, composed with
\* the setpoints and the hold status of the GET
C16_Witness ==
    /\ composed /\ call.op = "setThermostat" /\ call.partial = [mode |-> "Off"]
    /\ Len(call.sent) = 2
    /\ has(command, "mode", "Off") /\ has(command, "heatSetpoint", 20)
    /\ has(command, "coolSetpoint", 25)
    /\ has(command, "thermostatSetpointStatus", "PermanentHold")
    /\ has(snapshot, "thermostatSetpointStatus", "PermanentHold")

\* the entry points of a device that write to the vendor API
WriteEntryPoints ==
    { "onMultipleCapabilities", "onFanCapability", "setCustomThermostatMode",
      "setCustomACMode", "setCoolSetpoint", "setFanMode", "setResumeSchedule" }

\* the write of an entry point ended with a request of it failed
requestFailed ==
    /\ call # NoCall /\ call.entry \in WriteEntryPoints
    /\ call.pc = "done" /\ Len(call.sent) >= 1
    /\ result.kind = "throw"

\* C17 (as claimed): when a request of a write entry point fails, the promise the
\* caller of the entry point holds rejects with that error, and the write sent at most
\* one POST.
C17_WriteFailureReachesCaller ==
    /\ requestFailed => (call.caller.kind = "throw" /\ call.caller = result)
    /\ (call # NoCall /\ call.entry \in WriteEntryPoints)
       => Cardinality({ i \in 1..Len(call.sent) : call.sent[i].method = "POST" }) <= 1

\* C18: a write of the setpoint and mode listener with a numeric heat setpoint, or with
\* a numeric cool setpoint on a device with target_temperature.cool, hands the status
\* HoldUntil to setThermostat.
C18_SetpointRequestsHoldUntil ==
    (call # NoCall /\ call.op = "setThermostat" /\ call.pc # "done")
    => \A d \in Devices :
         ((("target_temperature" \in DOMAIN call.args
               /\ call.args["target_temperature"] # << >>)
            \/ ("target_temperature.cool" \in dev[d].caps
                  /\ "target_temperature.cool" \in DOMAIN call.args
                  /\ call.args["target_temperature.cool"] # << >>))
          => call.partial.thermostatSetpointStatus = "HoldUntil")

\* the listener was handed a cool setpoint alone on a device with
\* target_temperature.cool, and asked setThermostat for HoldUntil
C18_Witness ==
    /\ call # NoCall /\ call.op = "setThermostat" /\ call.pc = "getDevice"
    /\ call.entry = "onMultipleCapabilities"
    /\ DOMAIN call.args = {"target_temperature.cool"}
    /\ \A d \in Devices : "target_temperature.cool" \in dev[d].caps
    /\ call.partial.thermostatSetpointStatus = "HoldUntil"
    /\ call.partial.coolSetpoint = <<26>>

\* C19 (as claimed): for a removed device no poll cycle starts, and when a fetch that
\* was in flight at the removal completes, the handler leaves the device's capability
\* values, unit setting and availability as they are.
C19_RemovedDeviceIsStopped ==
    [][\A d \in deleted :
        /\ ~(pc[d] = "idle" /\ pc'[d] = "getDevice")
        /\ (pc[d] \in {"gotDevice", "gotFan"} /\ pc'[d] # pc[d]) => dev'[d] = dev[d]
    ]_vars

\* a cycle of d ended with a failure of a fetch or of a reconciliation step
failedCycle(d) ==
    /\ pc[d] = "idle"
    /\ \/ did(d, <<"error", "failed to get device">>)
       \/ did(d, <<"error", "failed to get fan">>)
       \/ did(d, <<"error", "changeableValues">>)

\* C20: the handler of a poll cycle ends without an error thrown whatever the fetch
\* gave it; after a failed cycle of a device that is not removed the interval is still
\* armed, and the next cycle starts (or the device is removed).
C20_FailedCycleIsRetried ==
    /\ [](\A d \in PollDevices :
            /\ pc[d] = "gotDevice" => ~fetchThermostat(dev[d], got[d], host).thrown
            /\ pc[d] = "gotFan" => ~fetchFan(dev[d], got[d]).thrown
            /\ (failedCycle(d) /\ d \notin deleted) => timer[d])
    /\ \A d \in PollDevices :
         (failedCycle(d) /\ d \notin deleted) ~> (pc[d] = "getDevice" \/ d \in deleted)

\* a cycle in which both fetches failed has ended, and the device is not removed
C20_Witness ==
    \E d \in PollDevices :
        /\ pc[d] = "idle" /\ d \notin deleted /\ timer[d]
        /\ did(d, <<"error", "failed to get device">>)
        /\ did(d, <<"error", "failed to get fan">>)

\* the local fields a thermostat payload is reconciled into
fieldsOf(D) ==
    << D.units, D.val["measure_temperature"], D.val["target_temperature"],
       D.val["target_temperature.cool"], D.val["custom_thermostat_mode"],
       D.val["custom_ac_mode"] >>

\* every reconciled field of D comes from one payload (reconciling it again changes
\* none), or none was reconciled yet
fromOnePayload(D) ==
    \/ fieldsOf(D) = fieldsOf(NewDevice(D.caps))
    \/ \E p \in StepPayloads :
         fieldsOf(fetchThermostat(D, Return(Obj(p), <<>>), "stores null").dev) = fieldsOf(D)

\* C21 (as claimed): a write intent of a device never starts between the field updates
\* of a reconciliation pass of that device: the cached setpoints and the unit setting
\* it reads all come from one payload.
C21_ReconcileAtomic ==
    [][\A d \in Devices :
        (call.op = "none" /\ call'.op # "none")
        => /\ pc[d] \notin { "_parseTargetTemperature", "_parseThermostatMode",
                             "_parseACMode", "_parseAlive" }
           /\ fromOnePayload(dev[d])
    ]_vars

\* a second run of _fetchDeviceData of device d is in flight beside the cycle at pc[d]
overlaps(d) ==
    /\ call.op = "_fetchDeviceData"
    /\ call.device = d
    /\ pc[d] \notin { "new", "idle" }

\* C22 (as claimed): at most one poll cycle of a device is in flight at any time: the
\* interval firing while a cycle (the initial fetch included) is in flight starts no
\* second cycle.
C22_OneCycleInFlight == \A d \in Devices : ~overlaps(d)

\* the callers whose refresh request is in flight
refreshing == { c \in Callers : pc[c] = "fetch" }

\* C23 (as claimed): concurrent calls of onRefreshToken on one client are coalesced:
\* at most one refresh request is in flight at any time.
C23_RefreshSingleFlight == Cardinality(refreshing) <= 1

\* C24 (as claimed): a removed device no longer listens for rateLimited: once it is
\* removed and has no fetch of its own in flight, a rate-limit notification of the
\* client neither runs its onRateLimited nor changes its availability.
C24_RemovedDeviceUnsubscribed ==
    [][\A d \in deleted : pc[d] = "idle" => dev'[d] = dev[d]]_vars

\* the write in flight was asked for a mode and for no setpoint
modeOnly ==
    /\ call # NoCall /\ call.op = "setThermostat"
    /\ DOMAIN call.args # {}
    /\ DOMAIN call.args \subseteq {"custom_thermostat_mode", "custom_ac_mode"}

\* C25 (as claimed): a write intent that supplies a mode and no setpoint sends a
\* command whose heatSetpoint, coolSetpoint and thermostatSetpointStatus are those of
\* the snapshot fetched for the write, the status being PermanentHold instead when
\* the snapshot has HoldUntil without a string nextPeriodTime.
C25_ModeWriteKeepsTheRest ==
    (composed /\ modeOnly)
    => /\ same("heatSetpoint")
       /\ same("coolSetpoint")
       /\ IF holdWithoutPeriod
          THEN command.thermostatSetpointStatus = "PermanentHold"
          ELSE same("thermostatSetpointStatus")

\* a mode write of device d has ended, and its listener emitted the mode-changed
\* notification
modeWriteEnded(d) ==
    /\ call # NoCall /\ call.op = "setThermostat" /\ call.pc = "done"
    /\ \E m \in {"heat", "off"} : did(d, trigger(m))

\* C26 (as claimed): a mode write that emitted thermostat_mode_changed ended with its
\* requests successful and asked for a mode other than the one stored: a failed mode
\* write, or a write of the mode already stored, emits no notification.
C26_ModeChangedOnlyOnChange ==
    \A d \in Devices :
        modeWriteEnded(d)
        => /\ result.kind = "return"
           /\ ~did(d, trigger(dev[d].val["custom_thermostat_mode"]))

\* device d is unavailable with the rate-limit reason
rateLimited(d) == ~dev[d].available /\ dev[d].reason = RATE_LIMITED_REASON

\* the thermostat fetch of d succeeded with a payload reporting isAlive true
gotAlive(d) ==
    /\ gotObject(d)
    /\ hasOwnProperty(got[d].body.o, "isAlive")
    /\ got[d].body.o.isAlive

\* C27 (as claimed): when a poll cycle of a device that is unavailable by rate limit
\* resumes after its thermostat fetch, the device becomes available if the fetch
\* succeeded with a payload reporting isAlive true, and otherwise does not take the
\* offline reason in place of the rate-limit reason.
C27_RateLimitedRecovers ==
    [][\A d \in Devices :
        (resumesThermostat(d) /\ rateLimited(d))
        => IF gotAlive(d) THEN dev'[d].available
           ELSE dev'[d].reason # OFFLINE_REASON
    ]_vars

====
